---- MODULE Spec2Model ----
(***************************************************************************)
(* A model of sdcard.c, the FUSE daemon that re-exports a host directory.  *)
(* The state is the daemon's memory (struct fuse, the heap of struct node, *)
(* the open handles), the host filesystem it calls into and the kernel     *)
(* channel: the request last read and the replies written for it.  One     *)
(* step of the model is one iteration of the loop of handle_fuse_requests. *)
(***************************************************************************)
EXTENDS Integers, Sequences, FiniteSets, TLC

VARIABLES
    mem,              \* pointer -> struct node (the heap slots and fuse->root)
    next_generation,  \* fuse->next_generation
    next_node_id,     \* fuse->next_node_id
    force_lower_case, \* the global flag set by -l
    host,             \* the host filesystem: component list -> entry
    handles,          \* pointer -> struct handle / struct dirhandle
    req,              \* the message last read from the channel
    replies,          \* the replies written for it, in order
    pc,               \* "run": in the loop; "stopped": the loop returned;
                      \* "crashed": the process died in a handler
    uaf,              \* history: a handler has read or written freed memory
    klookup,          \* history: per nodeid, the lookups the kernel holds
    births,           \* history: the number of nodes created so far
    issued,           \* history: <<nodeid, generation, birth>> of every entry
                      \* reply written
    stray,            \* history: the kernel has named a nodeid it held no
                      \* lookup of, or forgotten more than it held
    streak,           \* history: the last n messages were LOOKUPs that
                      \* returned node nid, and the first of them created it
    chain             \* history: how far the last messages are through
                      \* MKDIR, LOOKUP, RMDIR, LOOKUP of one new name

vars == <<mem, next_generation, next_node_id, force_lower_case, host, handles,
          req, replies, pc, uaf, klookup, births, issued, stray,
          streak, chain>>

-----------------------------------------------------------------------------
(* Bounds of the model *)

MaxNodes == 2        \* heap slots a struct node can be allocated in
MaxCreate == 2       \* node_create calls in one run
MaxRef == 2          \* LOOKUP is not sent for a node whose refcount is here
MaxNlookup == 2      \* largest nlookup of a FORGET
MaxDepth == 2        \* deepest host path below the root that is created
MaxUnique == 1       \* request ids are drawn from 1..MaxUnique
MaxHandles == 1      \* heap slots a handle can be allocated in

(* Program constants *)

FUSE_ROOT_ID == 1
PATH_BUFFER_SIZE == 1024
ROOT_REFCOUNT == 2
FIRST_NODE_ID == 2
FIRST_GENERATION == 0
ENOENT == 2
ENOMEM == 12
EFAULT == 14
EEXIST == 17
ENOTDIR == 20
EISDIR == 21
EINVAL == 22
EBADF == 9
ENOSYS == 38
ENOTEMPTY == 39

NULL == 0

\* Pointers.  A struct node lives in one of MaxNodes heap slots or is
\* fuse->root; no heap address is 0 or 1.
Heap == (FUSE_ROOT_ID + 1)..(FUSE_ROOT_ID + MaxNodes)
RootPtr == FUSE_ROOT_ID + MaxNodes + 1
Ptrs == Heap \cup {RootPtr}
HandlePtrs == (RootPtr + 1)..(RootPtr + MaxHandles)

\* Characters and names.  A string is a sequence of characters.
Names == {<<"a">>, <<"b">>}
NoName == <<"\\0">>          \* a null char* (no string at all)
RootPaths == {<<"/", "s">>}

-----------------------------------------------------------------------------
(* struct node *)

FreeNode == [live |-> FALSE, nid |-> 0, gen |-> 0, next |-> NULL,
             child |-> NULL, parent |-> NULL, refcount |-> 0, namelen |-> 0,
             name |-> <<>>, birth |-> 0]

IsLive(m, p) == p \in Ptrs /\ m[p].live

tolower(ch) ==
    IF ch = "A" THEN "a" ELSE IF ch = "B" THEN "b"
    ELSE IF ch = "S" THEN "s" ELSE ch

normalize_name(flc, s) ==
    IF flc THEN [i \in 1..Len(s) |-> tolower(s[i])] ELSE s

\* node_get_path: the walk from node to the root, writing "/name" from the
\* tail of the buffer towards its head.  out is out - buf.  The result is
\* st = "ok" with the path, "null" when the function returns 0 (the buffer is
\* too small), "uaf" when the walk reads a freed or foreign struct node.  A
\* cycle of parent pointers makes the loop run until the buffer is used up.
RECURSIVE PathWalk(_, _, _, _, _)
PathWalk(m, node, out, acc, seen) ==
    IF node = NULL THEN [st |-> "ok", path |-> acc]
    ELSE IF ~IsLive(m, node) THEN [st |-> "uaf", path |-> <<>>]
    ELSE IF node \in seen THEN [st |-> "null", path |-> <<>>]
    ELSE LET len == m[node].namelen IN
         IF len + 1 > out THEN [st |-> "null", path |-> <<>>]
         ELSE IF len > Len(m[node].name) THEN [st |-> "uaf", path |-> <<>>]
         ELSE PathWalk(m, m[node].parent, out - len - 1,
                       <<"/">> \o SubSeq(m[node].name, 1, len) \o acc,
                       seen \cup {node})

\* A wrong node_get_path, for comparison: it never calls normalize_name.
node_get_path_no_fold(m, flc, node, name) ==
    LET out0 == PATH_BUFFER_SIZE - 1
    IN IF name # NoName
       THEN IF Len(name) + 1 > out0
            THEN [st |-> "null", path |-> <<>>]
            ELSE PathWalk(m, node, out0 - Len(name) - 1, <<"/">> \o name, {})
       ELSE PathWalk(m, node, out0, <<>>, {})

node_get_path(m, flc, node, name) ==
    LET out0 == PATH_BUFFER_SIZE - 1
        r == IF name # NoName
             THEN IF Len(name) + 1 > out0
                  THEN [st |-> "null", path |-> <<>>]
                  ELSE PathWalk(m, node, out0 - Len(name) - 1,
                                <<"/">> \o name, {})
             ELSE PathWalk(m, node, out0, <<>>, {})
    IN IF r.st = "ok" THEN [st |-> "ok", path |-> normalize_name(flc, r.path)]
       ELSE r

\* A wrong add_node_to_parent, for comparison: it links the node into the
\* list but leaves node->parent as it was.
add_node_unparented(m, node, parent) ==
    LET m2 == [m EXCEPT ![node].next = m[parent].child]
        m3 == [m2 EXCEPT ![parent].child = node]
    IN [m3 EXCEPT ![parent].refcount = m3[parent].refcount + 1]

\* add_node_to_parent: four assignments, in the order of the code (node and
\* parent may be the same struct).
add_node_to_parent(m, node, parent) ==
    LET m1 == [m EXCEPT ![node].parent = parent]
        m2 == [m1 EXCEPT ![node].next = m1[parent].child]
        m3 == [m2 EXCEPT ![parent].child = node]
    IN [m3 EXCEPT ![parent].refcount = m3[parent].refcount + 1]

\* malloc/calloc: any slot that is not allocated.
FreeSlots(m, heap) == {p \in heap : ~m[p].live}

\* A wrong node_create, for comparison: every node gets the first
\* generation.
node_create_same_gen(m, p, parent, name, nid, gen, birth) ==
    LET m1 == [m EXCEPT ![p] = [FreeNode EXCEPT !.live = TRUE, !.nid = nid,
                                                !.gen = FIRST_GENERATION,
                                                !.birth = birth]]
        m2 == add_node_to_parent(m1, p, parent)
    IN [m2 EXCEPT ![p].name = name, ![p].namelen = Len(name)]

\* node_create into slot p (calloc zeroes the struct), then node_lookup's
\* node->nid = ptr_to_id(node).
node_create(m, p, parent, name, nid, gen, birth) ==
    LET m1 == [m EXCEPT ![p] = [FreeNode EXCEPT !.live = TRUE, !.nid = nid,
                                                !.gen = gen, !.birth = birth]]
        m2 == add_node_to_parent(m1, p, parent)
    IN [m2 EXCEPT ![p].name = name, ![p].namelen = Len(name)]

ptr_to_id(p) == p
id_to_ptr(nid) == nid

lookup_by_inode(nid) == IF nid = FUSE_ROOT_ID THEN RootPtr ELSE id_to_ptr(nid)

\* The sibling list starting at pointer p, as far as it can be followed
\* through live structs: the pointers visited, in order.  The walk stops at
\* NULL, at a struct that is not live (reading it is undefined) or when the
\* list loops.
RECURSIVE ListFrom(_, _, _)
ListFrom(m, p, seen) ==
    IF p = NULL \/ ~IsLive(m, p) \/ p \in seen THEN <<>>
    ELSE <<p>> \o ListFrom(m, m[p].next, seen \cup {p})

\* How such a walk ends: "null" (the list ends), "wild" (it reaches a struct
\* that is not live) or "loop".
RECURSIVE ListEnd(_, _, _)
ListEnd(m, p, seen) ==
    IF p = NULL THEN "null"
    ELSE IF ~IsLive(m, p) THEN "wild"
    ELSE IF p \in seen THEN "loop"
    ELSE ListEnd(m, m[p].next, seen \cup {p})

Children(m, parent) == ListFrom(m, m[parent].child, {})

SeqToSet(s) == {s[i] : i \in 1..Len(s)}

\* lookup_child_by_name: the first child whose name is name; NULL when the
\* list ends without one.  (strcmp compares the stored string.)
lookup_child_by_name(m, parent, name) ==
    LET kids == Children(m, parent)
        hits == {i \in 1..Len(kids) : m[kids[i]].name = name}
    IN IF hits = {} THEN NULL
       ELSE kids[CHOOSE i \in hits : \A j \in hits : i <= j]

\* Whether lookup_child_by_name (or remove_child) runs into memory that is
\* not a live struct node before it returns.
ScanFaults(m, parent, found) ==
    found = NULL /\ ListEnd(m, m[parent].child, {}) = "wild"

dec_refcount(m, node) ==
    IF m[node].refcount > 0
    THEN [m EXCEPT ![node].refcount = m[node].refcount - 1]
    ELSE m

\* A wrong remove_child, for comparison: it leaves the parent's refcount as
\* it is.
remove_child_keeps_count(m, parent, nid) ==
    LET kids == Children(m, parent)
        hits == {i \in 1..Len(kids) : m[kids[i]].nid = nid}
    IN IF hits = {} THEN [m |-> m, node |-> NULL]
       ELSE LET i == CHOOSE k \in hits : \A j \in hits : k <= j
                node == kids[i]
                m1 == IF i > 1
                      THEN [m EXCEPT ![kids[i - 1]].next = m[node].next]
                      ELSE [m EXCEPT ![parent].child = m[node].next]
                m2 == [m1 EXCEPT ![node].next = NULL, ![node].parent = NULL]
            IN [m |-> m2, node |-> node]

\* remove_child: unlink the child whose nid is nid.  The result is the new
\* memory and the node removed (NULL when none has that nid).
remove_child(m, parent, nid) ==
    LET kids == Children(m, parent)
        hits == {i \in 1..Len(kids) : m[kids[i]].nid = nid}
    IN IF hits = {} THEN [m |-> m, node |-> NULL]
       ELSE LET i == CHOOSE k \in hits : \A j \in hits : k <= j
                node == kids[i]
                m1 == IF i > 1
                      THEN [m EXCEPT ![kids[i - 1]].next = m[node].next]
                      ELSE [m EXCEPT ![parent].child = m[node].next]
                m2 == [m1 EXCEPT ![node].next = NULL, ![node].parent = NULL]
            IN [m |-> dec_refcount(m2, parent), node |-> node]

\* A wrong rename_node, for comparison: the node keeps its old name.
rename_node_stale(m, node, name) == m

\* rename_node when realloc succeeds, and when it fails (namelen is already
\* the new length, the string is the old one).
rename_node(m, node, name) ==
    [m EXCEPT ![node].namelen = Len(name), ![node].name = name]

rename_node_nomem(m, node, name) ==
    [m EXCEPT ![node].namelen = Len(name)]

-----------------------------------------------------------------------------
(* node_release and the FORGET loop *)

\* node_release.  The result is the new memory and how the call ended: "ok",
\* "crash" (a null pointer is dereferenced: the process dies with the memory
\* as it is then), "uaf" (a struct that is not live is read or written) or
\* "hang" (the sibling walk never ends).
RECURSIVE node_release(_, _, _)
node_release(m, node, fuel) ==
    IF node = NULL THEN [m |-> m, st |-> "crash"]
    ELSE IF ~IsLive(m, node) THEN [m |-> m, st |-> "uaf"]
    ELSE IF fuel = 0 THEN [m |-> m, st |-> "hang"]
    ELSE
    LET m1 == dec_refcount(m, node) IN
    IF m1[node].refcount # 0 THEN [m |-> m1, st |-> "ok"]
    ELSE
    LET parent == m1[node].parent IN
    IF parent = NULL THEN [m |-> m1, st |-> "crash"]
    ELSE IF ~IsLive(m1, parent) THEN [m |-> m1, st |-> "uaf"]
    ELSE
    LET kids == Children(m1, parent)
        at == {i \in 1..Len(kids) : kids[i] = node}
        walk == ListEnd(m1, m1[parent].child, {})
    IN
    IF at = {}
    THEN \* the walk for node2->next == node leaves the list
         [m |-> m1, st |-> IF walk = "null" THEN "crash"
                           ELSE IF walk = "wild" THEN "uaf" ELSE "hang"]
    ELSE
    LET i == CHOOSE k \in at : TRUE
        m2 == IF i = 1
              THEN [m1 EXCEPT ![parent].child = m1[m1[parent].child].next]
              ELSE [m1 EXCEPT ![kids[i - 1]].next = m1[node].next]
        r == node_release(m2, m2[node].parent, fuel - 1)
    IN
    IF r.st # "ok" THEN r
    ELSE [m |-> [r.m EXCEPT ![node] = FreeNode], st |-> "ok"]

ReleaseFuel == 2 * MaxNodes + 4

\* A wrong FORGET loop, for comparison: it releases one lookup whatever
\* nlookup is.
forget_once(m, node, n) ==
    IF n = 0 THEN [m |-> m, st |-> "ok"]
    ELSE node_release(m, node, ReleaseFuel)

\* while (req->nlookup--) node_release(node);
RECURSIVE forget_loop(_, _, _)
forget_loop(m, node, n) ==
    IF n = 0 THEN [m |-> m, st |-> "ok"]
    ELSE LET r == node_release(m, node, ReleaseFuel) IN
         IF r.st # "ok" THEN r ELSE forget_loop(r.m, node, n - 1)

-----------------------------------------------------------------------------
(* The host filesystem.  An entry is named by the list of the components of *)
(* its absolute path; repeated slashes in a path string count once.         *)

RECURSIVE Split(_, _, _)
Split(s, i, cur) ==
    IF i > Len(s) THEN (IF cur = <<>> THEN <<>> ELSE <<cur>>)
    ELSE IF s[i] = "/"
         THEN (IF cur = <<>> THEN <<>> ELSE <<cur>>) \o Split(s, i + 1, <<>>)
         ELSE Split(s, i + 1, Append(cur, s[i]))

Resolve(path) == Split(path, 1, <<>>)

S_IFDIR == 16384
S_IFREG == 32768
PERM_MASK == 512

IsDirMode(mode) == (mode \div 4096) % 16 = 4

IsPrefix(a, b) == Len(a) <= Len(b) /\ SubSeq(b, 1, Len(a)) = a

\* The error of walking to the directory that holds c: 0 when every proper
\* prefix of c below the filesystem root is a directory.
PrefixErr(h, c) ==
    LET bad == {k \in 1..(Len(c) - 1) :
                   \/ SubSeq(c, 1, k) \notin DOMAIN h
                   \/ ~IsDirMode(h[SubSeq(c, 1, k)].mode)}
    IN IF bad = {} THEN 0
       ELSE LET k == CHOOSE x \in bad : \A y \in bad : x <= y
            IN IF SubSeq(c, 1, k) \in DOMAIN h THEN ENOTDIR ELSE ENOENT

\* A path as a handler hands it to a syscall: p.st = "null" is the null
\* pointer node_get_path returns, "uaf" a buffer built from freed memory,
\* which names nothing on the host.
PathErr(h, p) ==
    IF p.st = "null" THEN EFAULT
    ELSE IF p.st = "uaf" THEN ENOENT
    ELSE IF Resolve(p.path) = <<>> THEN ENOENT
    ELSE PrefixErr(h, Resolve(p.path))

h_lstat(h, p) ==
    LET e == PathErr(h, p) IN
    IF e # 0 THEN [err |-> e, mode |-> 0]
    ELSE IF Resolve(p.path) \notin DOMAIN h THEN [err |-> ENOENT, mode |-> 0]
    ELSE [err |-> 0, mode |-> h[Resolve(p.path)].mode]

\* truncate(path, size)
h_truncate(h, p, size) ==
    LET e == PathErr(h, p)
        c == Resolve(p.path)
    IN IF e # 0 THEN [err |-> e, host |-> h]
       ELSE IF c \notin DOMAIN h THEN [err |-> ENOENT, host |-> h]
       ELSE IF IsDirMode(h[c].mode) THEN [err |-> EISDIR, host |-> h]
       ELSE [err |-> 0, host |-> [h EXCEPT ![c].size = size]]

\* open(path, flags) and opendir(path): the error, 0 when it opens
h_open(h, p, acc) ==
    LET e == PathErr(h, p)
        c == Resolve(p.path)
    IN IF e # 0 THEN e
       ELSE IF c \notin DOMAIN h THEN ENOENT
       ELSE IF IsDirMode(h[c].mode) /\ acc # "r" THEN EISDIR
       ELSE 0

h_opendir(h, p) ==
    LET e == PathErr(h, p)
        c == Resolve(p.path)
    IN IF e # 0 THEN e
       ELSE IF c \notin DOMAIN h THEN ENOENT
       ELSE IF ~IsDirMode(h[c].mode) THEN ENOTDIR
       ELSE 0

HostPut(h, c, e) == [x \in DOMAIN h \cup {c} |-> IF x = c THEN e ELSE h[x]]
HostDel(h, c) == [x \in DOMAIN h \ {c} |-> h[x]]
HasEntries(h, c) == \E x \in DOMAIN h : Len(x) > Len(c) /\ IsPrefix(c, x)

h_create(h, p, mode) ==
    LET e == PathErr(h, p)
        c == Resolve(p.path)
    IN IF e # 0 THEN [err |-> e, host |-> h]
       ELSE IF c \in DOMAIN h THEN [err |-> EEXIST, host |-> h]
       ELSE [err |-> 0, host |-> HostPut(h, c, [mode |-> mode, size |-> 0])]

\* mknod(path, mode, rdev) and mkdir(path, mode), under umask(0)
h_mknod(h, p, mode) == h_create(h, p, S_IFREG + (mode % PERM_MASK))
h_mkdir(h, p, mode) == h_create(h, p, S_IFDIR + (mode % PERM_MASK))

h_unlink(h, p) ==
    LET e == PathErr(h, p)
        c == Resolve(p.path)
    IN IF e # 0 THEN [err |-> e, host |-> h]
       ELSE IF c \notin DOMAIN h THEN [err |-> ENOENT, host |-> h]
       ELSE IF IsDirMode(h[c].mode) THEN [err |-> EISDIR, host |-> h]
       ELSE [err |-> 0, host |-> HostDel(h, c)]

h_rmdir(h, p) ==
    LET e == PathErr(h, p)
        c == Resolve(p.path)
    IN IF e # 0 THEN [err |-> e, host |-> h]
       ELSE IF c \notin DOMAIN h THEN [err |-> ENOENT, host |-> h]
       ELSE IF ~IsDirMode(h[c].mode) THEN [err |-> ENOTDIR, host |-> h]
       ELSE IF HasEntries(h, c) THEN [err |-> ENOTEMPTY, host |-> h]
       ELSE [err |-> 0, host |-> HostDel(h, c)]

\* rename(old, new): the entry and everything below it moves; an entry at
\* new of the same type is replaced.
h_rename(h, po, pn) ==
    LET eo == PathErr(h, po)
        en == PathErr(h, pn)
        o == Resolve(po.path)
        n == Resolve(pn.path)
        Moved(x) == n \o SubSeq(x, Len(o) + 1, Len(x))
        kept == {x \in DOMAIN h : ~IsPrefix(o, x) /\ x # n}
        moved == {x \in DOMAIN h : IsPrefix(o, x)}
    IN IF eo # 0 THEN [err |-> eo, host |-> h]
       ELSE IF o \notin DOMAIN h THEN [err |-> ENOENT, host |-> h]
       ELSE IF en # 0 THEN [err |-> en, host |-> h]
       ELSE IF o = n THEN [err |-> 0, host |-> h]
       ELSE IF IsPrefix(o, n) THEN [err |-> EINVAL, host |-> h]
       ELSE IF n \in DOMAIN h /\ IsDirMode(h[o].mode) /\ ~IsDirMode(h[n].mode)
            THEN [err |-> ENOTDIR, host |-> h]
       ELSE IF n \in DOMAIN h /\ ~IsDirMode(h[o].mode) /\ IsDirMode(h[n].mode)
            THEN [err |-> EISDIR, host |-> h]
       ELSE IF n \in DOMAIN h /\ HasEntries(h, n)
            THEN [err |-> ENOTEMPTY, host |-> h]
       ELSE [err |-> 0,
             host |-> [x \in kept \cup {Moved(y) : y \in moved} |->
                          IF x \in kept THEN h[x]
                          ELSE h[o \o SubSeq(x, Len(n) + 1, Len(x))]]]

-----------------------------------------------------------------------------
(* Replies and the outcome of a handler *)

AID_SDCARD_RW == 1015
IN_HEADER_SIZE == 40

NoAttr == [ino |-> 0, mode |-> 0, uid |-> 0, gid |-> 0]
NoBody == [kind |-> "none", nodeid |-> 0, generation |-> 0, attr |-> NoAttr,
           val |-> 0]

\* fuse_status(fuse, unique, err): a header alone
Status(err) == [error |-> err, body |-> NoBody]
\* fuse_reply(fuse, unique, data, len): error 0 and a body
Reply(body) == [error |-> 0, body |-> body]

AttrBody(attr) == [NoBody EXCEPT !.kind = "attr", !.attr = attr]
EntryBody(nid, gen, attr) ==
    [NoBody EXCEPT !.kind = "entry", !.nodeid = nid, !.generation = gen,
                   !.attr = attr]
ValBody(kind, v) == [NoBody EXCEPT !.kind = kind, !.val = v]

\* A wrong attr_from_stat, for comparison: it tests every execute bit (0111)
\* where the code tests 0100.
attr_from_stat_any_exec(mode) ==
    [ino |-> 0,
     mode |-> IF (mode \div 64) % 2 = 1 \/ (mode \div 8) % 2 = 1 \/ mode % 2 = 1
              THEN (mode \div 512) * 512 + 509
              ELSE (mode \div 512) * 512 + 436,
     uid |-> 0, gid |-> AID_SDCARD_RW]

\* attr_from_stat: the mode with its low nine bits forced, uid and gid fixed
attr_from_stat(mode) ==
    [ino |-> 0,
     mode |-> IF (mode \div 64) % 2 = 1
              THEN (mode \div 512) * 512 + 509
              ELSE (mode \div 512) * 512 + 436,
     uid |-> 0, gid |-> AID_SDCARD_RW]

\* The part of the state a handler works on.
Cur == [mem |-> mem, ngen |-> next_generation, nnid |-> next_node_id,
        births |-> births, host |-> host, handles |-> handles]

\* An outcome of a handler: the state it leaves, the replies it wrote and st:
\*   "ok"         it returned
\*   "crash"      it dereferenced a null pointer: the process is dead
\*   "hang"       it never returns
\*   "uaf_crash"  it read or wrote memory that is not live, and died of it
\*   "uaf_go"     it read or wrote memory that is not live, found nothing
\*                there and went on
Done(s, out, st) == [s |-> s, out |-> out, st |-> st]

Undefined(s, out) == {Done(s, <<>>, "uaf_crash"), Done(s, out, "uaf_go")}

\* How a faulting helper ends the handler that called it.
Faulted(s, st) ==
    IF st = "uaf" THEN Undefined(s, <<>>) ELSE {Done(s, <<>>, st)}

-----------------------------------------------------------------------------
(* lookup_entry and node_lookup *)

\* A wrong lookup_entry, for comparison: when lstat fails it passes errno as
\* it is, as FUSE_OPEN does.
lookup_entry_errno(s, flc, env, node, name) ==
    LET p == node_get_path(s.mem, flc, node, name)
        ls == h_lstat(s.host, p)
    IN
    IF p.st = "uaf" THEN Undefined(s, <<Status(-ENOENT)>>)
    ELSE IF ls.err # 0 THEN {Done(s, <<Status(ls.err)>>, "ok")}
    ELSE
    LET found == lookup_child_by_name(s.mem, node, name)
        attr == attr_from_stat(ls.mode)
        Entry(m, n) ==
            LET m1 == [m EXCEPT ![n].refcount = m[n].refcount + 1]
            IN [mem |-> m1,
                out |-> <<Reply(EntryBody(m1[n].nid, m1[n].gen,
                                          [attr EXCEPT !.ino = m1[n].nid]))>>]
    IN
    IF ScanFaults(s.mem, node, found)
    THEN Undefined(s, <<Status(-ENOENT)>>)
    ELSE IF found # NULL
    THEN {Done([s EXCEPT !.mem = Entry(s.mem, found).mem],
               Entry(s.mem, found).out, "ok")}
    ELSE
    LET s1 == [s EXCEPT !.ngen = s.ngen + 1, !.nnid = s.nnid + 1]
        b == IF env.ghost THEN s.births + 1 ELSE 0
    IN
    (IF env.oom \/ FreeSlots(s.mem, env.heap) = {}
     THEN {Done(s1, <<Status(-ENOENT)>>, "ok")} ELSE {})
    \cup
    {LET m1 == node_create(s.mem, slot, node, name, s.nnid, s.ngen, b)
         m2 == [m1 EXCEPT ![slot].nid = ptr_to_id(slot)]
     IN Done([s1 EXCEPT !.mem = Entry(m2, slot).mem, !.births = b],
             Entry(m2, slot).out, "ok") : slot \in FreeSlots(s.mem, env.heap)}

\* lookup_entry(fuse, node, name, unique): every outcome.  malloc may return
\* any free slot, and fails when there is none; with env.oom it may fail at
\* any time.  env.ghost: the history field birth of a new node is written.
lookup_entry(s, flc, env, node, name) ==
    LET p == node_get_path(s.mem, flc, node, name)
        ls == h_lstat(s.host, p)
    IN
    IF p.st = "uaf" THEN Undefined(s, <<Status(-ENOENT)>>)
    ELSE IF ls.err # 0 THEN {Done(s, <<Status(-ENOENT)>>, "ok")}
    ELSE
    LET found == lookup_child_by_name(s.mem, node, name)
        attr == attr_from_stat(ls.mode)
        Entry(m, n) ==
            LET m1 == [m EXCEPT ![n].refcount = m[n].refcount + 1]
            IN [mem |-> m1,
                out |-> <<Reply(EntryBody(m1[n].nid, m1[n].gen,
                                          [attr EXCEPT !.ino = m1[n].nid]))>>]
    IN
    IF ScanFaults(s.mem, node, found)
    THEN Undefined(s, <<Status(-ENOENT)>>)
    ELSE IF found # NULL
    THEN {Done([s EXCEPT !.mem = Entry(s.mem, found).mem],
               Entry(s.mem, found).out, "ok")}
    ELSE
    LET s1 == [s EXCEPT !.ngen = s.ngen + 1, !.nnid = s.nnid + 1]
        b == IF env.ghost THEN s.births + 1 ELSE 0
    IN
    (IF env.oom \/ FreeSlots(s.mem, env.heap) = {}
     THEN {Done(s1, <<Status(-ENOENT)>>, "ok")} ELSE {})
    \cup
    {LET m1 == node_create(s.mem, slot, node, name, s.nnid, s.ngen, b)
         m2 == [m1 EXCEPT ![slot].nid = ptr_to_id(slot)]
     IN Done([s1 EXCEPT !.mem = Entry(m2, slot).mem, !.births = b],
             Entry(m2, slot).out, "ok") : slot \in FreeSlots(s.mem, env.heap)}

-----------------------------------------------------------------------------
(* The opcode handlers: the cases of the switch of handle_fuse_request.     *)
(* Each gives every outcome the handler can have from state s.              *)

op_lookup(s, flc, env, node, name) == lookup_entry(s, flc, env, node, name)

op_forget(s, node, nlookup) ==
    LET r == forget_loop(s.mem, node, nlookup)
        s1 == [s EXCEPT !.mem = r.m]
    IN IF r.st = "ok" THEN {Done(s1, <<>>, "ok")} ELSE Faulted(s1, r.st)

\* A wrong node_get_attr, for comparison: it leaves attr->ino as
\* attr_from_stat set it.
node_get_attr_host_ino(s, flc, node) ==
    LET p == node_get_path(s.mem, flc, node, NoName)
        ls == h_lstat(s.host, p)
    IN IF ls.err # 0 THEN [res |-> -1, errno |-> ls.err, attr |-> NoAttr]
       ELSE [res |-> 0, errno |-> 0, attr |-> attr_from_stat(ls.mode)]

\* node_get_attr: the attributes written to *attr (left zeroed, as memset
\* made them, when lstat fails) and the errno lstat left.
node_get_attr(s, flc, node) ==
    LET p == node_get_path(s.mem, flc, node, NoName)
        ls == h_lstat(s.host, p)
    IN IF ls.err # 0 THEN [res |-> -1, errno |-> ls.err, attr |-> NoAttr]
       ELSE [res |-> 0, errno |-> 0,
             attr |-> [attr_from_stat(ls.mode) EXCEPT !.ino = s.mem[node].nid]]

op_getattr(s, flc, node) ==
    IF node_get_path(s.mem, flc, node, NoName).st = "uaf"
    THEN Undefined(s, <<Reply(AttrBody(NoAttr))>>)
    ELSE {Done(s, <<Reply(AttrBody(node_get_attr(s, flc, node).attr))>>, "ok")}

\* A wrong FUSE_SETATTR, for comparison: without the size bit it sets the
\* permission bits of the file to 0777, as a chmod would.
op_setattr_chmod(s, flc, node, valid_size, size) ==
    LET p == node_get_path(s.mem, flc, node, NoName)
        c == Resolve(p.path)
        t == IF valid_size THEN h_truncate(s.host, p, size)
             ELSE IF p.st = "ok" /\ c \in DOMAIN s.host
             THEN [err |-> 0,
                   host |-> [s.host EXCEPT ![c].mode = (@ \div 512) * 512 + 511]]
             ELSE [err |-> 0, host |-> s.host]
        s1 == [s EXCEPT !.host = t.host]
        a == node_get_attr(s1, flc, node)
    IN IF p.st = "uaf" THEN Undefined(s, <<Reply(AttrBody(NoAttr))>>)
       ELSE IF t.err # 0 THEN {Done(s1, <<Status(-t.err)>>, "ok")}
       ELSE {Done(s1, <<Reply(AttrBody(a.attr))>>, "ok")}

op_setattr(s, flc, node, valid_size, size) ==
    LET p == node_get_path(s.mem, flc, node, NoName)
        t == IF valid_size THEN h_truncate(s.host, p, size)
             ELSE [err |-> 0, host |-> s.host]
        s1 == [s EXCEPT !.host = t.host]
        a == node_get_attr(s1, flc, node)
        errno == IF a.res # 0 THEN a.errno ELSE t.err
    IN IF p.st = "uaf" THEN Undefined(s, <<Reply(AttrBody(NoAttr))>>)
       ELSE IF t.err # 0 THEN {Done(s1, <<Status(-errno)>>, "ok")}
       ELSE {Done(s1, <<Reply(AttrBody(a.attr))>>, "ok")}

op_mknod(s, flc, env, node, name, mode) ==
    LET p == node_get_path(s.mem, flc, node, name)
        r == h_mknod(s.host, p, (mode \div 512) * 512 + 436)
    IN IF p.st = "uaf" THEN Undefined(s, <<Status(-ENOENT)>>)
       ELSE IF r.err # 0 THEN {Done(s, <<Status(-r.err)>>, "ok")}
       ELSE lookup_entry([s EXCEPT !.host = r.host], flc, env, node, name)

op_mkdir(s, flc, env, node, name, mode) ==
    LET p == node_get_path(s.mem, flc, node, name)
        r == h_mkdir(s.host, p, (mode \div 512) * 512 + 509)
    IN IF p.st = "uaf" THEN Undefined(s, <<Status(-ENOENT)>>)
       ELSE IF r.err # 0 THEN {Done(s, <<Status(-r.err)>>, "ok")}
       ELSE lookup_entry([s EXCEPT !.host = r.host], flc, env, node, name)

op_unlink(s, flc, node, name) ==
    LET p == node_get_path(s.mem, flc, node, name)
        r == h_unlink(s.host, p)
    IN IF p.st = "uaf" THEN Undefined(s, <<Status(-ENOENT)>>)
       ELSE {Done([s EXCEPT !.host = r.host], <<Status(-r.err)>>, "ok")}

op_rmdir(s, flc, node, name) ==
    LET p == node_get_path(s.mem, flc, node, name)
        r == h_rmdir(s.host, p)
    IN IF p.st = "uaf" THEN Undefined(s, <<Status(-ENOENT)>>)
       ELSE {Done([s EXCEPT !.host = r.host], <<Status(-r.err)>>, "ok")}

\* FUSE_RENAME.  With env.oom, realloc in rename_node may fail.
op_rename(s, flc, env, node, oldname, newname, newdir) ==
    IF ~IsLive(s.mem, node) THEN Undefined(s, <<Status(-ENOENT)>>)
    ELSE
    LET target == lookup_child_by_name(s.mem, node, oldname)
        oldpath == node_get_path(s.mem, flc, node, oldname)
        newparent == IF newdir = 0 THEN NULL ELSE lookup_by_inode(newdir)
        newpath == node_get_path(s.mem, flc, newparent, newname)
    IN
    IF ScanFaults(s.mem, node, target) THEN Undefined(s, <<Status(-ENOENT)>>)
    ELSE IF target = NULL THEN {Done(s, <<Status(-ENOENT)>>, "ok")}
    ELSE IF oldpath.st = "uaf" THEN Undefined(s, <<Status(-ENOENT)>>)
    ELSE IF newparent = NULL THEN {Done(s, <<Status(-ENOENT)>>, "ok")}
    ELSE IF newpath.st = "uaf" THEN Undefined(s, <<Status(-ENOENT)>>)
    ELSE
    LET rc == remove_child(s.mem, node, s.mem[target].nid) IN
    IF rc.node = NULL THEN {Done(s, <<Status(-ENOENT)>>, "ok")}
    ELSE
    LET nomem == rename_node_nomem(rc.m, target, newname)
        m1 == rename_node(rc.m, target, newname)
        m2 == add_node_to_parent(m1, target, newparent)
        r == h_rename(s.host, oldpath, newpath)
    IN (IF env.oom THEN {Done([s EXCEPT !.mem = nomem], <<Status(-ENOMEM)>>,
                              "ok")}
        ELSE {})
       \cup
       {Done([s EXCEPT !.mem = m2, !.host = r.host], <<Status(-r.err)>>, "ok")}

-----------------------------------------------------------------------------
(* File and directory handles *)

READ_MAX == 131072
REQ_READ_SIZE == 8192

FreeHandle == [open |-> FALSE, dir |-> FALSE, acc |-> "r", file |-> <<>>]

IsOpen(hd, fh) == fh \in HandlePtrs /\ hd[fh].open
FreeHandleSlots(hd) == {x \in HandlePtrs : ~hd[x].open}

Min(a, b) == IF a < b THEN a ELSE b
Max(a, b) == IF a > b THEN a ELSE b

op_open(s, flc, env, node, acc) ==
    LET p == node_get_path(s.mem, flc, node, NoName)
        e == h_open(s.host, p, acc)
    IN (IF env.oom \/ FreeHandleSlots(s.handles) = {}
        THEN {Done(s, <<Status(-ENOMEM)>>, "ok")} ELSE {})
       \cup
       (IF FreeHandleSlots(s.handles) = {} THEN {}
        ELSE IF p.st = "uaf" THEN Undefined(s, <<Status(ENOENT)>>)
        ELSE IF e # 0 THEN {Done(s, <<Status(e)>>, "ok")}
        ELSE {Done([s EXCEPT !.handles[fh] =
                        [open |-> TRUE, dir |-> FALSE, acc |-> acc,
                         file |-> Resolve(p.path)]],
                   <<Reply(ValBody("open", ptr_to_id(fh)))>>, "ok")
              : fh \in FreeHandleSlots(s.handles)})

\* The bytes a pread of size bytes at off returns from the file of handle h:
\* what the file holds there; a file that is no longer at the path it was
\* opened at keeps its contents, which the model does not follow.
PreadCounts(s, h, size, off) ==
    IF h.file \in DOMAIN s.host
    THEN {Max(0, Min(size, s.host[h.file].size - off))}
    ELSE {0, size}

op_read(s, fh, size, off) ==
    IF size > READ_MAX THEN {Done(s, <<Status(-EINVAL)>>, "ok")}
    ELSE IF ~IsOpen(s.handles, fh) \/ s.handles[fh].dir
    THEN Undefined(s, <<Status(EBADF)>>)
    ELSE LET h == s.handles[fh] IN
         IF h.acc = "w" THEN {Done(s, <<Status(EBADF)>>, "ok")}
         ELSE IF h.file \in DOMAIN s.host /\ IsDirMode(s.host[h.file].mode)
         THEN {Done(s, <<Status(EISDIR)>>, "ok")}
         ELSE {Done(s, <<Reply(ValBody("data", res))>>, "ok")
               : res \in PreadCounts(s, h, size, off)}

\* FUSE_WRITE: after the reply the handler jumps to oops, which writes a
\* second header.
op_write(s, fh, size, off) ==
    IF ~IsOpen(s.handles, fh) \/ s.handles[fh].dir
    THEN Undefined(s, <<Status(EBADF)>>)
    ELSE LET h == s.handles[fh] IN
         IF h.acc = "r" THEN {Done(s, <<Status(EBADF)>>, "ok")}
         ELSE LET h1 == IF h.file \in DOMAIN s.host
                        THEN [s.host EXCEPT ![h.file].size =
                                  Max(s.host[h.file].size, off + size)]
                        ELSE s.host
              IN {Done([s EXCEPT !.host = h1],
                       <<Reply(ValBody("write", size)), Status(-ENOSYS)>>,
                       "ok")}

op_statfs(s) ==
    IF Resolve(s.mem[RootPtr].name) \in DOMAIN s.host
    THEN {Done(s, <<Reply(ValBody("statfs", 0))>>, "ok")}
    ELSE {Done(s, <<Status(-ENOENT)>>, "ok")}

op_release(s, fh) ==
    IF ~IsOpen(s.handles, fh) \/ s.handles[fh].dir
    THEN Undefined(s, <<Status(0)>>)
    ELSE {Done([s EXCEPT !.handles[fh] = FreeHandle], <<Status(0)>>, "ok")}

op_flush(s) == {Done(s, <<Status(0)>>, "ok")}

op_opendir(s, flc, env, node) ==
    LET p == node_get_path(s.mem, flc, node, NoName)
        e == h_opendir(s.host, p)
    IN (IF env.oom \/ FreeHandleSlots(s.handles) = {}
        THEN {Done(s, <<Status(-ENOMEM)>>, "ok")} ELSE {})
       \cup
       (IF FreeHandleSlots(s.handles) = {} THEN {}
        ELSE IF p.st = "uaf" THEN Undefined(s, <<Status(-ENOENT)>>)
        ELSE IF e # 0 THEN {Done(s, <<Status(-e)>>, "ok")}
        ELSE {Done([s EXCEPT !.handles[fh] =
                        [open |-> TRUE, dir |-> TRUE, acc |-> "r",
                         file |-> Resolve(p.path)]],
                   <<Reply(ValBody("open", ptr_to_id(fh)))>>, "ok")
              : fh \in FreeHandleSlots(s.handles)})

\* FUSE_READDIR: the stream gives its next entry, or is at its end.
op_readdir(s, fh) ==
    IF ~IsOpen(s.handles, fh) \/ ~s.handles[fh].dir
    THEN Undefined(s, <<Status(0)>>)
    ELSE {Done(s, <<Status(0)>>, "ok"),
          Done(s, <<Reply(ValBody("dirent", 0))>>, "ok")}

op_releasedir(s, fh) ==
    IF ~IsOpen(s.handles, fh) \/ ~s.handles[fh].dir
    THEN Undefined(s, <<Status(0)>>)
    ELSE {Done([s EXCEPT !.handles[fh] = FreeHandle], <<Status(0)>>, "ok")}

op_init(s, max_readahead) ==
    {Done(s, <<Reply(ValBody("init", max_readahead))>>, "ok")}

op_default(s) == {Done(s, <<Status(-ENOSYS)>>, "ok")}

-----------------------------------------------------------------------------
(* handle_fuse_request and the loop of handle_fuse_requests *)

NoArg == [name |-> NoName, name2 |-> NoName, n |-> 0, ptr |-> 0]

Request(op, unique, nodeid, frame, arg) ==
    [opcode |-> op, unique |-> unique, nodeid |-> nodeid,
     len |-> frame[1], hlen |-> frame[2], arg |-> arg]

\* No message has been read.
NoRequest == Request("NONE", 0, 0, <<0, 0>>, NoArg)

\* A wrong framing test, for comparison: it does not compare hdr->len.
malformed_short(len, hlen) == len < IN_HEADER_SIZE

\* (len < sizeof(*hdr)) || (hdr->len != len)
Malformed(len, hlen) == len < IN_HEADER_SIZE \/ hlen # len

GoodFrames == {<<IN_HEADER_SIZE + 1, IN_HEADER_SIZE + 1>>}
BadFrames == {<<IN_HEADER_SIZE - 1, IN_HEADER_SIZE - 1>>,
              <<IN_HEADER_SIZE - 1, IN_HEADER_SIZE + 1>>,
              <<IN_HEADER_SIZE + 1, IN_HEADER_SIZE - 1>>}

\* The frame of a message that carries size bytes of data after its header
\* and its argument: read(fuse->fd, req, 8192) takes no more than 8192 bytes
\* of it, while hdr->len counts them all.  (The argument struct is counted
\* as the one byte GoodFrames gives it.)
DataFrame(size) ==
    <<Min(REQ_READ_SIZE, IN_HEADER_SIZE + 1 + size), IN_HEADER_SIZE + 1 + size>>

Uniques == 1..MaxUnique

\* The nodeids a request may carry: the root's, and every heap address,
\* whether a node lives there or not.
NodeIds == {FUSE_ROOT_ID} \cup {ptr_to_id(p) : p \in Heap}

\* The nodeids a kernel that follows the protocol sends: the root's, and
\* those it holds a lookup of.
HeldIds == {FUSE_ROOT_ID} \cup {x \in DOMAIN klookup : klookup[x] > 0}

\* The nodeids of the nodes in the table.
LiveIds == {FUSE_ROOT_ID} \cup {ptr_to_id(p) : p \in {q \in Heap : mem[q].live}}

\* The environment of a run is a record env:
\*   obey   "held": the kernel follows the protocol: it names only nodeids
\*          and handles it holds, and forgets no more lookups than it holds;
\*          "live": it may also name a node that is in the table but that it
\*          holds no lookup of; "any": it names any nodeid and handle and
\*          forgets any number of lookups
\*   names  the names the kernel uses
\*   heap   the addresses malloc has to give
\*   oom    malloc and realloc may fail while memory is left
\*   wfail  write() on the channel may fail
\*   trace  the last message and the replies to it are kept for inspection
\*   ghost  the pairs issued in entry replies are kept, and which creation
\*          each named
\* The kernel's lookup counts are kept unless env.obey = "any" and not
\* env.ghost.
Counted(env) == env.obey # "any" \/ env.ghost

Ids(env) ==
    IF env.obey = "held" THEN HeldIds
    ELSE IF env.obey = "live" THEN LiveIds ELSE NodeIds

Fhs(env) ==
    IF env.obey = "any" THEN HandlePtrs
    ELSE {h \in HandlePtrs : IsOpen(handles, h)}

\* The history the kernel keeps: a FORGET gives lookups back, an entry reply
\* that was written to the channel adds one.
KAfter(r, rs) ==
    LET k1 == IF r.opcode = "FORGET" /\ r.nodeid \in DOMAIN klookup
              THEN [klookup EXCEPT ![r.nodeid] = Max(0, @ - r.arg.n)]
              ELSE klookup
        got == {rs[i].body.nodeid : i \in {j \in 1..Len(rs) :
                    rs[j].body.kind = "entry" /\ rs[j].delivered}}
    IN [x \in DOMAIN k1 |-> IF x \in got THEN k1[x] + 1 ELSE k1[x]]

\* Message r breaks the protocol: its nodeid, or the newdir of a RENAME, is
\* one the kernel holds no lookup of, or it forgets more than is held.
Strays(r) ==
    \/ r.nodeid \notin HeldIds \cup {0}
    \/ r.opcode = "RENAME" /\ r.arg.ptr \notin HeldIds \cup {0}
    \/ /\ r.opcode = "FORGET"
       /\ r.nodeid \in DOMAIN klookup
       /\ r.arg.n > klookup[r.nodeid]
    \/ r.opcode = "FORGET" /\ r.nodeid = FUSE_ROOT_ID /\ r.arg.n > 0

\* The history of LOOKUPs of one new node: a LOOKUP that creates a node
\* starts it, a LOOKUP that returns the same node again continues it, and any
\* other message ends it.
\* A FORGET of exactly those n lookups, sent right after them, closes it
\* (forgot); parent and prc are the node's parent and the parent's refcount
\* while the node was attached.
NoStreak == [nid |-> 0, n |-> 0, parent |-> NULL, prc |-> 0, forgot |-> FALSE]

StreakAfter(r, o) ==
    IF /\ r.opcode = "LOOKUP"
       /\ o.st = "ok"
       /\ Len(o.out) = 1
       /\ o.out[1].body.kind = "entry"
    THEN LET x == o.out[1].body.nodeid
             p == o.s.mem[id_to_ptr(x)].parent
         IN
         IF ~mem[id_to_ptr(x)].live
         THEN [nid |-> x, n |-> 1, parent |-> p,
               prc |-> o.s.mem[p].refcount, forgot |-> FALSE]
         ELSE IF streak.nid = x /\ ~streak.forgot
         THEN [streak EXCEPT !.n = @ + 1]
         ELSE NoStreak
    ELSE IF /\ r.opcode = "FORGET"
            /\ streak.n >= 1
            /\ ~streak.forgot
            /\ r.nodeid = streak.nid
            /\ r.arg.n = streak.n
    THEN [streak EXCEPT !.forgot = TRUE]
    ELSE NoStreak

\* The history of one new directory: MKDIR of a name the host does not have,
\* in a directory the host has, when malloc has memory to give (k = 1; nid
\* and gen are those of the entry reply); then LOOKUP of that name there
\* (k = 2), RMDIR of it (k = 3) and LOOKUP again (k = 4).  Any other message
\* ends it.
NoChain == [k |-> 0, dir |-> 0, name |-> NoName, nid |-> 0, gen |-> 0]

ChainAfter(env, r, o) ==
    LET node == lookup_by_inode(r.nodeid)
        Same(op) == /\ r.opcode = op
                    /\ r.nodeid = chain.dir
                    /\ r.arg.name = chain.name
    IN
    IF /\ r.opcode = "MKDIR"
       /\ IsLive(mem, node)
       /\ h_opendir(host, node_get_path(mem, force_lower_case, node,
                                        NoName)) = 0
       /\ h_lstat(host, node_get_path(mem, force_lower_case, node,
                                      r.arg.name)).err = ENOENT
       /\ \/ lookup_child_by_name(mem, node, r.arg.name) # NULL
          \/ ~env.oom /\ FreeSlots(mem, env.heap) # {}
    THEN [k |-> 1, dir |-> r.nodeid, name |-> r.arg.name,
          nid |-> IF Len(o.out) = 1 THEN o.out[1].body.nodeid ELSE 0,
          gen |-> IF Len(o.out) = 1 THEN o.out[1].body.generation ELSE 0]
    ELSE IF chain.k = 1 /\ Same("LOOKUP") THEN [chain EXCEPT !.k = 2]
    ELSE IF chain.k = 2 /\ Same("RMDIR") THEN [chain EXCEPT !.k = 3]
    ELSE IF chain.k = 3 /\ Same("LOOKUP") THEN [chain EXCEPT !.k = 4]
    ELSE NoChain

\* Which writes to the channel succeed: every combination when write() may
\* fail.  (No handler looks at the result of its write.)
Deliveries(env, out) ==
    IF env.wfail THEN [1..Len(out) -> BOOLEAN]
    ELSE {[i \in 1..Len(out) |-> TRUE]}

\* The handler has run with outcome o; write(2) on the channel succeeded for
\* the replies d marks.
Commit(env, r, o, d) ==
    LET rs == [i \in 1..Len(o.out) |->
                  [unique |-> r.unique, error |-> o.out[i].error,
                   body |-> o.out[i].body, delivered |-> d[i]]]
    IN /\ mem' = o.s.mem
       /\ next_generation' = o.s.ngen
       /\ next_node_id' = o.s.nnid
       /\ births' = o.s.births
       /\ host' = o.s.host
       /\ handles' = o.s.handles
       /\ replies' = IF env.trace THEN rs ELSE <<>>
       /\ pc' = IF o.st \in {"ok", "uaf_go"} THEN "run"
                ELSE IF o.st = "hang" THEN "hung" ELSE "crashed"
       /\ uaf' = (uaf \/ o.st \in {"uaf_go", "uaf_crash"})
       /\ klookup' = IF Counted(env) THEN KAfter(r, rs) ELSE klookup
       /\ stray' = IF Counted(env) THEN (stray \/ Strays(r)) ELSE stray
       /\ issued' = IF env.ghost
                    THEN issued \cup
                         {<<rs[i].body.nodeid, rs[i].body.generation,
                            o.s.mem[rs[i].body.nodeid].birth>> :
                              i \in {j \in 1..Len(rs) :
                                        rs[j].body.kind = "entry"}}
                    ELSE issued
       /\ streak' = IF env.trace THEN StreakAfter(r, o) ELSE NoStreak
       /\ chain' = IF env.trace THEN ChainAfter(env, r, o) ELSE NoChain

\* One iteration of the loop: read() returns message r, and
\* handle_fuse_request runs on it; outs are the outcomes of the case of the
\* switch for r.
handle_fuse_request(env, r, outs) ==
    /\ pc = "run"
    /\ req' = IF env.trace THEN r ELSE NoRequest
    /\ UNCHANGED force_lower_case
    /\ IF Malformed(r.len, r.hlen)
       THEN /\ replies' = <<>>
            /\ streak' = NoStreak
            /\ chain' = NoChain
            /\ UNCHANGED <<mem, next_generation, next_node_id, births, host,
                           handles, pc, uaf, klookup, issued, stray>>
       ELSE \E o \in outs : \E d \in Deliveries(env, o.out) :
                Commit(env, r, o, d)

-----------------------------------------------------------------------------
(* The requests the kernel sends *)

\* A request is sent only when no outcome of it takes a counter, or the depth
\* of the host's tree, past the bounds of the model.
Admitted(outs) ==
    \A o \in outs :
        /\ o.s.ngen <= FIRST_GENERATION + MaxCreate
        /\ \A p \in Heap : \/ o.s.mem[p].refcount <= MaxRef
                           \/ o.s.mem[p].refcount <= mem[p].refcount
        /\ \A path \in DOMAIN o.s.host :
               Len(path) <= Len(Resolve(mem[RootPtr].name)) + MaxDepth

ModesIn == {S_IFREG + 384}
SizesIn == {0}
ReadSizes == {1, READ_MAX + 1}
WriteSizes == {1, READ_MAX + 1}
OffsetsIn == {0}
AccModes == {"r", "rw"}

Lookup(env) ==
    \E u \in Uniques, nid \in Ids(env), name \in env.names, f \in GoodFrames :
        LET outs == op_lookup(Cur, force_lower_case, env, lookup_by_inode(nid),
                              name)
        IN /\ Admitted(outs)
           /\ handle_fuse_request(env,
                  Request("LOOKUP", u, nid, f, [NoArg EXCEPT !.name = name]),
                  outs)

Forget(env) ==
    \E u \in Uniques, nid \in Ids(env), n \in 0..MaxNlookup, f \in GoodFrames :
        /\ env.obey # "any" => nid \in DOMAIN klookup /\ n <= klookup[nid]
        /\ handle_fuse_request(env,
               Request("FORGET", u, nid, f, [NoArg EXCEPT !.n = n]),
               op_forget(Cur, lookup_by_inode(nid), n))

Getattr(env) ==
    \E u \in Uniques, nid \in Ids(env), f \in GoodFrames :
        handle_fuse_request(env,
            Request("GETATTR", u, nid, f, NoArg),
            op_getattr(Cur, force_lower_case, lookup_by_inode(nid)))

Setattr(env) ==
    \E u \in Uniques, nid \in Ids(env), v \in BOOLEAN, size \in SizesIn,
       f \in GoodFrames :
        handle_fuse_request(env,
            Request("SETATTR", u, nid, f,
                    [NoArg EXCEPT !.n = size, !.ptr = IF v THEN 1 ELSE 0]),
            op_setattr(Cur, force_lower_case, lookup_by_inode(nid), v, size))

Mknod(env) ==
    \E u \in Uniques, nid \in Ids(env), name \in env.names, mode \in ModesIn,
       f \in GoodFrames :
        LET outs == op_mknod(Cur, force_lower_case, env, lookup_by_inode(nid),
                             name, mode)
        IN /\ Admitted(outs)
           /\ handle_fuse_request(env,
                  Request("MKNOD", u, nid, f, [NoArg EXCEPT !.name = name]),
                  outs)

Mkdir(env) ==
    \E u \in Uniques, nid \in Ids(env), name \in env.names, mode \in ModesIn,
       f \in GoodFrames :
        LET outs == op_mkdir(Cur, force_lower_case, env, lookup_by_inode(nid),
                             name, mode)
        IN /\ Admitted(outs)
           /\ handle_fuse_request(env,
                  Request("MKDIR", u, nid, f, [NoArg EXCEPT !.name = name]),
                  outs)

Unlink(env) ==
    \E u \in Uniques, nid \in Ids(env), name \in env.names, f \in GoodFrames :
        handle_fuse_request(env,
            Request("UNLINK", u, nid, f, [NoArg EXCEPT !.name = name]),
            op_unlink(Cur, force_lower_case, lookup_by_inode(nid), name))

Rmdir(env) ==
    \E u \in Uniques, nid \in Ids(env), name \in env.names, f \in GoodFrames :
        handle_fuse_request(env,
            Request("RMDIR", u, nid, f, [NoArg EXCEPT !.name = name]),
            op_rmdir(Cur, force_lower_case, lookup_by_inode(nid), name))

Rename(env) ==
    \E u \in Uniques, nid \in Ids(env), old \in env.names, new \in env.names,
       newdir \in Ids(env) \cup {0}, f \in GoodFrames :
        LET outs == op_rename(Cur, force_lower_case, env, lookup_by_inode(nid),
                              old, new, newdir)
        IN /\ Admitted(outs)
           /\ handle_fuse_request(env,
                  Request("RENAME", u, nid, f,
                          [NoArg EXCEPT !.name = old, !.name2 = new,
                                        !.ptr = newdir]),
                  outs)

Open(env) ==
    \E u \in Uniques, nid \in Ids(env), acc \in AccModes, f \in GoodFrames :
        handle_fuse_request(env,
            Request("OPEN", u, nid, f, NoArg),
            op_open(Cur, force_lower_case, env, lookup_by_inode(nid), acc))

Read(env) ==
    \E u \in Uniques, fh \in Fhs(env), size \in ReadSizes, off \in OffsetsIn,
       f \in GoodFrames :
        handle_fuse_request(env,
            Request("READ", u, 0, f, [NoArg EXCEPT !.n = size, !.ptr = fh]),
            op_read(Cur, fh, size, off))

Write(env) ==
    \E u \in Uniques, fh \in Fhs(env), size \in WriteSizes, off \in OffsetsIn :
        handle_fuse_request(env,
            Request("WRITE", u, 0, DataFrame(size),
                    [NoArg EXCEPT !.n = size, !.ptr = fh]),
            op_write(Cur, fh, size, off))

Statfs(env) ==
    \E u \in Uniques, f \in GoodFrames :
        handle_fuse_request(env, Request("STATFS", u, 0, f, NoArg),
                            op_statfs(Cur))

Release(env) ==
    \E u \in Uniques, fh \in Fhs(env), f \in GoodFrames :
        handle_fuse_request(env,
            Request("RELEASE", u, 0, f, [NoArg EXCEPT !.ptr = fh]),
            op_release(Cur, fh))

Flush(env) ==
    \E u \in Uniques, f \in GoodFrames :
        handle_fuse_request(env, Request("FLUSH", u, 0, f, NoArg),
                            op_flush(Cur))

Opendir(env) ==
    \E u \in Uniques, nid \in Ids(env), f \in GoodFrames :
        handle_fuse_request(env,
            Request("OPENDIR", u, nid, f, NoArg),
            op_opendir(Cur, force_lower_case, env, lookup_by_inode(nid)))

Readdir(env) ==
    \E u \in Uniques, fh \in Fhs(env), f \in GoodFrames :
        handle_fuse_request(env,
            Request("READDIR", u, 0, f, [NoArg EXCEPT !.ptr = fh]),
            op_readdir(Cur, fh))

Releasedir(env) ==
    \E u \in Uniques, fh \in Fhs(env), f \in GoodFrames :
        handle_fuse_request(env,
            Request("RELEASEDIR", u, 0, f, [NoArg EXCEPT !.ptr = fh]),
            op_releasedir(Cur, fh))

FuseInit(env) ==
    \E u \in Uniques, f \in GoodFrames :
        handle_fuse_request(env, Request("INIT", u, 0, f, NoArg),
                            op_init(Cur, READ_MAX))

Unsupported(env) ==
    \E u \in Uniques, f \in GoodFrames :
        handle_fuse_request(env, Request("OTHER", u, 0, f, NoArg),
                            op_default(Cur))

\* A message whose framing is wrong; the handler returns before it looks at
\* anything but the two lengths.
BadFrame(env) ==
    \E u \in Uniques, f \in BadFrames :
        handle_fuse_request(env, Request("FLUSH", u, 0, f, NoArg),
                            op_flush(Cur))

\* read() fails: with EINTR the loop reads again, with any other errno
\* handle_fuse_requests returns.  No message was read.
ReadEintr == pc = "run" /\ UNCHANGED vars

ReadError ==
    /\ pc = "run"
    /\ pc' = "stopped"
    /\ req' = NoRequest
    /\ replies' = <<>>
    /\ streak' = NoStreak
    /\ chain' = NoChain
    /\ UNCHANGED <<mem, next_generation, next_node_id, force_lower_case, host,
                   handles, uaf, klookup, births, issued, stray>>

-----------------------------------------------------------------------------
(* The state after fuse_init, and the specifications *)

RootNode(path) ==
    [FreeNode EXCEPT !.live = TRUE, !.nid = FUSE_ROOT_ID,
                     !.refcount = ROOT_REFCOUNT, !.name = path,
                     !.namelen = Len(path)]

InitHost ==
    LET root == <<<<"s">>>> IN
    (root :> [mode |-> S_IFDIR + 509, size |-> 0])
    @@ (root \o <<<<"a">>>> :> [mode |-> S_IFDIR + 509, size |-> 0])
    @@ (root \o <<<<"a">>, <<"a">>>> :> [mode |-> S_IFREG + 436, size |-> 0])

\* The state after main has called fuse_init(&fuse, fd, path) with h the
\* host filesystem as it is then.
FuseInitOn(path, flc, h) ==
    /\ mem = [p \in Ptrs |-> IF p = RootPtr THEN RootNode(path) ELSE FreeNode]
    /\ next_node_id = FIRST_NODE_ID
    /\ next_generation = FIRST_GENERATION
    /\ force_lower_case = flc
    /\ host = h
    /\ handles = [x \in HandlePtrs |-> FreeHandle]
    /\ req = NoRequest
    /\ replies = <<>>
    /\ pc = "run"
    /\ uaf = FALSE
    /\ klookup = [p \in Heap |-> 0]
    /\ births = 0
    /\ issued = {}
    /\ stray = FALSE
    /\ streak = NoStreak
    /\ chain = NoChain

fuse_init(path, flc) == FuseInitOn(path, flc, InitHost)

Init == \E path \in RootPaths : fuse_init(path, FALSE)

\* Any kernel: every nodeid, any FORGET; malloc and write() may fail.
AnyKernel ==
    [obey |-> "any", names |-> Names, heap |-> Heap,
     oom |-> TRUE, wfail |-> TRUE,
     trace |-> TRUE, ghost |-> FALSE]

\* The reference counts: LOOKUP and FORGET (and GETATTR, which changes
\* nothing) from any kernel, and the loop around them.
Next ==
    \/ Lookup(AnyKernel)
    \/ Forget(AnyKernel)
    \/ Getattr(AnyKernel)
    \/ BadFrame(AnyKernel)
    \/ ReadEintr
    \/ ReadError

Spec == Init /\ [][Next]_vars

\* A kernel that forgets no more than it holds, but that may name a node it
\* has forgotten while the node is still in the table.
LooseKernel ==
    [obey |-> "live", names |-> {<<"a">>}, heap |-> Heap,
     oom |-> TRUE, wfail |-> TRUE,
     trace |-> FALSE, ghost |-> FALSE]

\* The node tree under the requests that change it.
NextTree ==
    \/ Lookup(LooseKernel)
    \/ Forget(LooseKernel)
    \/ Mknod(LooseKernel)
    \/ Mkdir(LooseKernel)
    \/ Unlink(LooseKernel)
    \/ Rmdir(LooseKernel)
    \/ Rename(LooseKernel)

SpecTree == Init /\ [][NextTree]_vars

\* Every opcode, from a kernel that follows the protocol and uses one name.
OneName ==
    [obey |-> "held", names |-> {<<"a">>}, heap |-> {FUSE_ROOT_ID + 1},
     oom |-> FALSE, wfail |-> FALSE,
     trace |-> TRUE, ghost |-> FALSE]

NextAll ==
    \/ Lookup(OneName)
    \/ Forget(OneName)
    \/ Getattr(OneName)
    \/ Setattr(OneName)
    \/ Mknod(OneName)
    \/ Mkdir(OneName)
    \/ Unlink(OneName)
    \/ Rmdir(OneName)
    \/ Rename(OneName)
    \/ Open(OneName)
    \/ Read(OneName)
    \/ Write(OneName)
    \/ Statfs(OneName)
    \/ Release(OneName)
    \/ Flush(OneName)
    \/ Opendir(OneName)
    \/ Readdir(OneName)
    \/ Releasedir(OneName)
    \/ FuseInit(OneName)
    \/ Unsupported(OneName)
    \/ BadFrame(OneName)
    \/ ReadEintr
    \/ ReadError

SpecAll == Init /\ [][NextAll]_vars

\* A kernel that follows the protocol: it names only nodeids it holds and
\* forgets no more lookups than it holds.  The pairs it is given are kept.
FairKernel ==
    [obey |-> "held", names |-> Names, heap |-> Heap,
     oom |-> TRUE, wfail |-> TRUE,
     trace |-> FALSE, ghost |-> TRUE]

\* The requests that give the kernel a node, and FORGET.
NextKernel ==
    \/ Lookup(FairKernel)
    \/ Forget(FairKernel)
    \/ Mknod(FairKernel)
    \/ Mkdir(FairKernel)

SpecKernel == Init /\ [][NextKernel]_vars

\* A kernel that follows the protocol and renames, with one name; realloc
\* may fail.  The last message and its replies are kept.
RenameKernel ==
    [obey |-> "held", names |-> {<<"a">>}, heap |-> Heap,
     oom |-> TRUE, wfail |-> FALSE,
     trace |-> TRUE, ghost |-> FALSE]

NextRename ==
    \/ Lookup(RenameKernel)
    \/ Forget(RenameKernel)
    \/ Rename(RenameKernel)

SpecRename == Init /\ [][NextRename]_vars

\* A kernel that follows the protocol and renames, with two names and memory
\* for one node; no allocation fails while memory is left.
InPlaceKernel ==
    [obey |-> "held", names |-> Names, heap |-> {FUSE_ROOT_ID + 1},
     oom |-> FALSE, wfail |-> FALSE,
     trace |-> TRUE, ghost |-> FALSE]

NextInPlace ==
    \/ Lookup(InPlaceKernel)
    \/ Forget(InPlaceKernel)
    \/ Rename(InPlaceKernel)

SpecInPlace == Init /\ [][NextInPlace]_vars

\* The modes a host directory and a host file may have on disk: with and
\* without the owner's execute bit, with other execute bits alone, with the
\* sticky and the setuid bit.
DirModesOnDisk == {S_IFDIR + 509, S_IFDIR + 384, S_IFDIR + 447,
                   S_IFDIR + 512 + 511}
FileModesOnDisk == {S_IFREG + 384, S_IFREG + 448, S_IFREG + 8,
                    S_IFREG + 2048 + 428, S_IFREG + 2048 + 493}

\* The host trees the daemon may be started on: the root directory alone, or
\* with one entry a, each with any of the modes above.
HostsOnDisk ==
    LET root == <<<<"s">>>> IN
    {(root :> [mode |-> rm, size |-> 0]) : rm \in DirModesOnDisk}
    \cup
    {(root :> [mode |-> rm, size |-> 0])
     @@ (root \o <<<<"a">>>> :> [mode |-> am, size |-> 0]) :
         rm \in DirModesOnDisk, am \in DirModesOnDisk \cup FileModesOnDisk}

InitAttr == \E path \in RootPaths, h \in HostsOnDisk : FuseInitOn(path, FALSE, h)

\* A kernel that follows the protocol and asks for attributes.
AttrKernel ==
    [obey |-> "held", names |-> {<<"a">>}, heap |-> {FUSE_ROOT_ID + 1},
     oom |-> FALSE, wfail |-> FALSE,
     trace |-> TRUE, ghost |-> FALSE]

NextAttr ==
    \/ Lookup(AttrKernel)
    \/ Getattr(AttrKernel)
    \/ Mkdir(AttrKernel)
    \/ Forget(AttrKernel)

SpecAttr == InitAttr /\ [][NextAttr]_vars

\* The paths main may be given: absolute, in either case, or relative.
PathsGiven == {<<"/", "s">>, <<"/", "S">>, <<"s">>}
NamesGiven == {<<"a">>, <<"B">>}

\* A kernel that follows the protocol, with names in both cases (it renames
\* with the one name a, from one directory to another or in place); nothing
\* is kept of the messages.
PathKernel ==
    [obey |-> "held", names |-> NamesGiven, heap |-> Heap,
     oom |-> FALSE, wfail |-> FALSE,
     trace |-> FALSE, ghost |-> FALSE]

NextPath ==
    \/ Lookup(PathKernel)
    \/ Forget(PathKernel)
    \/ Mkdir(PathKernel)
    \/ Rename([PathKernel EXCEPT !.names = {<<"a">>}])

SpecPath ==
    /\ \E path \in PathsGiven, flc \in BOOLEAN : fuse_init(path, flc)
    /\ [][NextPath]_vars

\* The daemon started with -l, and a kernel that follows the protocol and
\* looks one name up in both cases.
FoldKernel ==
    [obey |-> "held", names |-> {<<"a">>, <<"A">>}, heap |-> Heap,
     oom |-> FALSE, wfail |-> FALSE,
     trace |-> TRUE, ghost |-> FALSE]

NextFold ==
    \/ Lookup(FoldKernel)
    \/ Forget(FoldKernel)

SpecFold ==
    /\ \E path \in RootPaths : fuse_init(path, TRUE)
    /\ [][NextFold]_vars

\* Any kernel, whose lookup counts are kept: it may forget what it does not
\* hold, the root too.  Every reply is written.  The one name it uses is not
\* on the host at the start, so that MKNOD and MKDIR make entries.
CountKernel ==
    [obey |-> "any", names |-> {<<"b">>}, heap |-> Heap,
     oom |-> FALSE, wfail |-> FALSE,
     trace |-> FALSE, ghost |-> TRUE]

NextCount ==
    \/ Lookup(CountKernel)
    \/ Forget(CountKernel)
    \/ Mknod(CountKernel)
    \/ Mkdir(CountKernel)
    \/ Rename(CountKernel)

SpecCount == Init /\ [][NextCount]_vars

-----------------------------------------------------------------------------
(* The properties *)

\* The framing test, as the specification states it.
MisFramed(r) == r.len < IN_HEADER_SIZE \/ r.hlen # r.len

\* A message has been read, and it is well-framed.
WellFramed(r) == r.opcode # "NONE" /\ ~MisFramed(r)

\* The nodes reachable from the root through child lists.
RECURSIVE Below(_, _, _)
Below(m, todo, seen) ==
    IF todo = {} THEN seen
    ELSE LET kids == UNION {SeqToSet(Children(m, p)) : p \in todo}
         IN Below(m, kids \ (seen \cup todo), seen \cup todo)

Reachable(m) == Below(m, {RootPtr}, {})

\* C1: while the dispatcher runs and no handler has touched freed memory,
\* the last well-framed request has exactly one reply, carrying its unique,
\* whatever its opcode; a FORGET has none.  (False: WRITE.)
C1_OneReply ==
    (pc = "run" /\ ~uaf /\ WellFramed(req)) =>
        IF req.opcode = "FORGET" THEN replies = <<>>
        ELSE Len(replies) = 1 /\ replies[1].unique = req.unique

\* C2: a request whose entry reply could not be written leaves the refcount
\* of the node the reply named as it was before the request.  (False: there
\* is no rollback.)
C2_RolledBack ==
    [][\A i \in 1..Len(replies') :
          (replies'[i].body.kind = "entry" /\ ~replies'[i].delivered) =>
              mem'[id_to_ptr(replies'[i].body.nodeid)].refcount
                  = mem[id_to_ptr(replies'[i].body.nodeid)].refcount]_vars

C4_DistinctNames ==
    (pc = "run" /\ ~stray) =>
        \A d \in Ptrs :
            mem[d].live =>
                LET kids == Children(mem, d) IN
                \A i, j \in 1..Len(kids) :
                    i # j => mem[kids[i]].name # mem[kids[j]].name

\* C5: after n >= 1 LOOKUPs in a row that returned one node, the first of
\* which created it, and a FORGET of n lookups on it: the node is freed and
\* out of its parent's child list, the FORGET has no reply, and the parent's
\* refcount is one lower than while the node was attached.
C5_ForgetFrees ==
    streak.forgot =>
        /\ pc = "run"
        /\ replies = <<>>
        /\ ~mem[id_to_ptr(streak.nid)].live
        /\ id_to_ptr(streak.nid) \notin SeqToSet(Children(mem, streak.parent))
        /\ mem[streak.parent].refcount = streak.prc - 1

\* C5: two LOOKUPs of a new node below a node that is not the root, then a
\* FORGET of both.
C5_Witness ==
    /\ streak.forgot
    /\ streak.n >= 2
    /\ streak.parent \in Heap
    /\ req.opcode = "FORGET"

\* C6: when the kernel, having kept to the protocol, holds no lookup any
\* more, the table holds the root alone, with its first refcount.  (False:
\* the lookup of a reply that was not written is never given back.)
C6_AllFreed ==
    (pc = "run" /\ ~stray /\ \A x \in DOMAIN klookup : klookup[x] = 0) =>
        /\ \A p \in Heap : ~mem[p].live
        /\ mem[RootPtr].refcount = ROOT_REFCOUNT
        /\ mem[RootPtr].child = NULL

\* C7: the root's refcount is never zero, and the root is never freed.
\* (False: FORGET on nodeid 1.)
C7_RootStays == mem[RootPtr].live /\ mem[RootPtr].refcount > 0

\* C8: two entry replies with the same nodeid and generation name the same
\* creation of a node; and a node in the table has nodeid 1 exactly if it is
\* the root.
C8_PairsUnique ==
    /\ \A e1, e2 \in issued :
          (e1[1] = e2[1] /\ e1[2] = e2[2]) => e1[3] = e2[3]
    /\ \A p \in Ptrs :
          mem[p].live => (mem[p].nid = FUSE_ROOT_ID <=> p = RootPtr)
    /\ \A e \in issued : e[1] # FUSE_ROOT_ID

\* C8: an address has been given to a second node after the first was freed,
\* and both were named in entry replies.
C8_Witness ==
    \E e1, e2 \in issued : e1[1] = e2[1] /\ e1[3] # e2[3]

\* C9: a well-framed request whose nodeid names a heap address where no node
\* lives is answered with one -ENOENT status and changes nothing in the
\* table.  (False: the address is used as it is.)
C9_StaleIsENOENT ==
    [][(/\ WellFramed(req')
        /\ lookup_by_inode(req'.nodeid) \in Heap
        /\ ~mem[lookup_by_inode(req'.nodeid)].live)
       => /\ pc' = "run"
          /\ Len(replies') = 1
          /\ replies'[1].error = -ENOENT
          /\ mem' = mem]_vars

C11_NegatedErrno ==
    \A i \in 1..Len(replies) :
        replies[i].error # 0 =>
            replies[i].error < 0 /\ replies[i].body.kind = "none"

\* C14: a WRITE of n bytes at an offset on a handle open for reading and
\* writing, whose file is on the host, followed by a READ of n bytes at that
\* offset on that handle: the READ has one reply, a success carrying n bytes.
\* (False for n above 128 KiB, which READ rejects, and which the loop cannot
\* even read whole.)
C14_ReadsBack ==
    [][(/\ req.opcode = "WRITE"
        /\ req'.opcode = "READ"
        /\ WellFramed(req')
        /\ req'.arg.ptr = req.arg.ptr
        /\ req'.arg.n = req.arg.n
        /\ IsOpen(handles, req.arg.ptr)
        /\ ~handles[req.arg.ptr].dir
        /\ handles[req.arg.ptr].acc = "rw"
        /\ handles[req.arg.ptr].file \in DOMAIN host
        /\ ~IsDirMode(host[handles[req.arg.ptr].file].mode))
       => /\ Len(replies') = 1
          /\ replies'[1].error = 0
          /\ replies'[1].body.kind = "data"
          /\ replies'[1].body.val = req.arg.n]_vars

\* C15: MKDIR of a name the host does not have, in a directory the host
\* has and with memory for the node, then LOOKUP, RMDIR and LOOKUP of that
\* name there, are answered in order by: a success entry reply, an entry
\* reply for the same node, a success status, and a -ENOENT status.
C15_MkdirRmdir ==
    chain.k >= 1 =>
        /\ pc = "run"
        /\ Len(replies) = 1
        /\ chain.k \in {1, 2} =>
              /\ replies[1].error = 0
              /\ replies[1].body.kind = "entry"
              /\ replies[1].body.nodeid = chain.nid
              /\ replies[1].body.generation = chain.gen
              /\ chain.nid \in Heap
              /\ mem[id_to_ptr(chain.nid)].live
              /\ mem[id_to_ptr(chain.nid)].name = chain.name
              /\ mem[id_to_ptr(chain.nid)].parent = lookup_by_inode(chain.dir)
        /\ chain.k = 3 => replies[1].error = 0 /\ replies[1].body.kind = "none"
        /\ chain.k = 4 =>
              replies[1].error = -ENOENT /\ replies[1].body.kind = "none"

\* C15: the four messages have been answered, in a directory below the root
\* or in the root.
C15_Witness ==
    /\ chain.k = 4
    /\ req.opcode = "LOOKUP"
    /\ req.arg.name = chain.name
    /\ Len(replies) = 1

\* The mode lstat gives for node in host h (0 when lstat fails).
HostMode(m, h, flc, node) == h_lstat(h, node_get_path(m, flc, node, NoName)).mode

\* C16: no step changes the mode of a host entry that stays; a SETATTR
\* neither adds nor removes an entry; a SETATTR without the size bit leaves
\* the host as it is and is answered by a success carrying the attributes
\* mapped from the file's mode; a SETATTR with the size bit changes at most
\* the size of the file its node names.
C16_NoChmod ==
    [][/\ \A c \in DOMAIN host \cap DOMAIN host' :
              host'[c].mode = host[c].mode
       /\ (req'.opcode = "SETATTR" /\ WellFramed(req') /\ pc' = "run") =>
              LET node == lookup_by_inode(req'.nodeid)
                  hm == HostMode(mem', host', force_lower_case', node)
              IN /\ DOMAIN host' = DOMAIN host
                 /\ req'.arg.ptr = 0 =>
                       /\ host' = host
                       /\ Len(replies') = 1
                       /\ replies'[1].error = 0
                       /\ replies'[1].body.kind = "attr"
                       /\ hm # 0 =>
                             /\ replies'[1].body.attr.mode \div 512
                                    = hm \div 512
                             /\ replies'[1].body.attr.mode % 512
                                    \in {436, 509}
                             /\ replies'[1].body.attr.uid = 0
                             /\ replies'[1].body.attr.gid = AID_SDCARD_RW
                 /\ req'.arg.ptr # 0 =>
                       \A c \in DOMAIN host :
                           host'[c] # host[c] =>
                               /\ c = Resolve(node_get_path(mem',
                                         force_lower_case', node, NoName).path)
                               /\ host'[c].size = req'.arg.n]_vars

\* C16: a SETATTR without the size bit on a node whose file is on the host
\* has been answered with attributes, and the file is not empty.
C16_Witness ==
    /\ req.opcode = "SETATTR"
    /\ req.arg.ptr = 0
    /\ Len(replies) = 1
    /\ replies[1].body.kind = "attr"
    /\ replies[1].body.attr.mode # 0
    /\ \E c \in DOMAIN host : host[c].size > 0

\* Every node on the heap is in the child list of the node its parent
\* pointer names, and in no other node's.
AllAttached(m) ==
    \A x \in Heap :
        m[x].live =>
            /\ IsLive(m, m[x].parent)
            /\ \A d \in Ptrs :
                  m[d].live =>
                      (x \in SeqToSet(Children(m, d)) <=> d = m[x].parent)

\* C12: a RENAME answered -ENOMEM, in a table where every node is attached,
\* leaves every node attached.  (False: the node was taken out of its
\* parent's list and is not put back.)
C12_NoDangling ==
    [][(/\ req'.opcode = "RENAME"
        /\ WellFramed(req')
        /\ Len(replies') = 1
        /\ replies'[1].error = -ENOMEM
        /\ AllAttached(mem))
       => AllAttached(mem')]_vars

\* The RENAME just read moves a name inside one directory, to another name,
\* and the host has the old name there and not the new one.
RenameInPlace(r, m, h, flc) ==
    /\ r.opcode = "RENAME"
    /\ WellFramed(r)
    /\ r.arg.ptr = r.nodeid
    /\ r.arg.name # r.arg.name2
    /\ IsLive(m, lookup_by_inode(r.nodeid))
    /\ h_lstat(h, node_get_path(m, flc, lookup_by_inode(r.nodeid),
                                r.arg.name)).err = 0
    /\ h_lstat(h, node_get_path(m, flc, lookup_by_inode(r.nodeid),
                                r.arg.name2)).err = ENOENT

\* What C13 says of the LOOKUP that follows a RENAME from a to b in one
\* directory that was answered with success: of b it succeeds, of a it is
\* answered -ENOENT.
LookupAfterRename ==
    (/\ req.opcode = "RENAME"
     /\ WellFramed(req)
     /\ req.arg.ptr = req.nodeid
     /\ req.arg.name # req.arg.name2
     /\ Len(replies) = 1
     /\ replies[1].error = 0
     /\ req'.opcode = "LOOKUP"
     /\ WellFramed(req')
     /\ req'.nodeid = req.nodeid
     /\ pc' = "run")
    => /\ Len(replies') = 1
       /\ req'.arg.name = req.arg.name2 =>
             /\ replies'[1].error = 0
             /\ replies'[1].body.kind = "entry"
             /\ mem'[id_to_ptr(replies'[1].body.nodeid)].name = req.arg.name2
       /\ req'.arg.name = req.arg.name =>
             replies'[1].error = -ENOENT

\* C13 as stated: whenever the host has a and not b, the RENAME is answered
\* with success (and the LOOKUPs that follow are as stated).
C13_RenameSucceeds ==
    [][/\ RenameInPlace(req', mem, host, force_lower_case) =>
              (Len(replies') = 1 /\ replies'[1].error = 0)
       /\ LookupAfterRename]_vars

\* C13, amended: when also the directory's node has a child named a in the
\* table, and no allocation fails, the RENAME is answered with success and
\* the host has b and not a; after a RENAME answered with success, LOOKUP
\* of b succeeds and LOOKUP of a is answered -ENOENT.
C13_RenameFound ==
    [][/\ (/\ RenameInPlace(req', mem, host, force_lower_case)
           /\ lookup_child_by_name(mem, lookup_by_inode(req'.nodeid),
                                   req'.arg.name) # NULL
           /\ pc' = "run")
          => /\ Len(replies') = 1
             /\ replies'[1].error = 0
             /\ h_lstat(host', node_get_path(mem', force_lower_case',
                           lookup_by_inode(req'.nodeid),
                           req'.arg.name2)).err = 0
             /\ h_lstat(host', node_get_path(mem', force_lower_case',
                           lookup_by_inode(req'.nodeid),
                           req'.arg.name)).err = ENOENT
       /\ LookupAfterRename]_vars

\* C13: after a RENAME from a to b in the root that was answered with
\* success, a LOOKUP of a there has been answered -ENOENT, while the node
\* that was renamed is in the table under the name b.
C13_Witness ==
    /\ req.opcode = "LOOKUP"
    /\ req.nodeid = FUSE_ROOT_ID
    /\ Len(replies) = 1
    /\ replies[1].error = -ENOENT
    /\ \E x \in Heap : /\ mem[x].live
                       /\ mem[x].parent = RootPtr
                       /\ mem[x].name # req.arg.name
                       /\ Resolve(mem[RootPtr].name) \o <<mem[x].name>>
                              \in DOMAIN host
                       /\ Resolve(mem[RootPtr].name) \o <<req.arg.name>>
                              \in DOMAIN InitHost \ DOMAIN host

\* The step handles a RENAME whose old child t was found in directory d,
\* whose new directory np is a node, and whose allocation succeeded.
RenameDone(d, t, np) ==
    /\ req'.opcode = "RENAME"
    /\ WellFramed(req')
    /\ pc' = "run"
    /\ d = lookup_by_inode(req'.nodeid)
    /\ IsLive(mem, d)
    /\ t = lookup_child_by_name(mem, d, req'.arg.name)
    /\ t # NULL
    /\ req'.arg.ptr # 0
    /\ np = lookup_by_inode(req'.arg.ptr)
    /\ IsLive(mem, np)
    /\ Len(replies') = 1
    /\ replies'[1].error # -ENOMEM

\* What C19 says of such a step.
RenameMoved(d, t, np) ==
    /\ mem'[t].live
    /\ mem'[t].nid = mem[t].nid
    /\ mem'[t].gen = mem[t].gen
    /\ mem'[t].refcount = mem[t].refcount
    /\ mem'[t].name = req'.arg.name2
    /\ mem'[t].parent = np
    /\ \A x \in Ptrs :
          mem'[x].live => (t \in SeqToSet(Children(mem', x)) <=> x = np)
    /\ IF d = np THEN mem'[d].refcount = mem[d].refcount
       ELSE /\ mem'[d].refcount = mem[d].refcount - 1
            /\ mem'[np].refcount = mem[np].refcount + 1
    /\ LET r == h_rename(host,
                   node_get_path(mem, force_lower_case, d, req'.arg.name),
                   node_get_path(mem, force_lower_case, np, req'.arg.name2))
       IN replies'[1].error = -r.err /\ host' = r.host

AttrNode ==
    lookup_by_inode(IF req.opcode = "LOOKUP" /\ Len(replies) = 1
                    THEN replies[1].body.nodeid ELSE req.nodeid)

\* The last message was a LOOKUP or a GETATTR answered with the attributes
\* of a node whose host entry lstat finds.
AttrReplied ==
    /\ req.opcode \in {"LOOKUP", "GETATTR"}
    /\ WellFramed(req)
    /\ Len(replies) = 1
    /\ replies[1].error = 0
    /\ replies[1].body.kind = (IF req.opcode = "LOOKUP" THEN "entry" ELSE "attr")
    /\ HostMode(mem, host, force_lower_case, AttrNode) # 0

\* C17, as stated: the attributes returned for a host directory carry 0775
\* whatever its bits on disk; those for a regular file carry 0775 when the
\* file is executable (by its owner) and 0664 otherwise.
C17_DirsAre0775 ==
    AttrReplied =>
        LET hm == HostMode(mem, host, force_lower_case, AttrNode)
            am == replies[1].body.attr.mode
        IN IF IsDirMode(hm) THEN am % 512 = 509
           ELSE am % 512 = (IF (hm \div 64) % 2 = 1 THEN 509 ELSE 436)

\* C17, amended: a host directory is given 0775 when its mode on disk has
\* the owner's execute bit and 0664 when it has not, as a regular file is;
\* the other execute bits do not count; a directory made by MKDIR is given
\* 0775.
C17_ByOwnerExec ==
    /\ AttrReplied =>
          LET hm == HostMode(mem, host, force_lower_case, AttrNode)
              am == replies[1].body.attr.mode
          IN /\ IsDirMode(hm) = IsDirMode(am)
             /\ hm % 128 >= 64 => am % 512 = 509
             /\ hm % 128 < 64 => am % 512 = 436
    /\ (req.opcode = "MKDIR" /\ Len(replies) = 1 /\ replies[1].error = 0) =>
          /\ replies[1].body.kind = "entry"
          /\ replies[1].body.attr.mode = S_IFDIR + 509

\* C17: a GETATTR or LOOKUP has returned 0664 for a host directory whose
\* mode has execute bits, but not the owner's.
C17_Witness ==
    /\ AttrReplied
    /\ HostMode(mem, host, force_lower_case, AttrNode) = S_IFDIR + 447
    /\ replies[1].body.attr.mode = S_IFDIR + 436

\* C18: the attributes returned by LOOKUP and GETATTR for a host mode m have
\* low nine bits 0775 when m has bit 0100 and 0664 otherwise, the bits of m
\* above the low nine, uid 0, the gid of the sdcard group, and ino equal to
\* the nodeid of the node.
C18_AttrMapped ==
    AttrReplied =>
        LET hm == HostMode(mem, host, force_lower_case, AttrNode)
            a == replies[1].body.attr
        IN /\ a.mode % 512 = (IF (hm \div 64) % 2 = 1 THEN 509 ELSE 436)
           /\ a.mode \div 512 = hm \div 512
           /\ a.uid = 0
           /\ a.gid = AID_SDCARD_RW
           /\ a.ino = mem[AttrNode].nid
           /\ a.ino = (IF req.opcode = "LOOKUP" THEN replies[1].body.nodeid
                       ELSE req.nodeid)

\* C18: a LOOKUP has returned the attributes of a setuid file without the
\* owner's execute bit: the setuid bit is kept and the low bits are 0664.
C18_Witness ==
    /\ AttrReplied
    /\ req.opcode = "LOOKUP"
    /\ HostMode(mem, host, force_lower_case, AttrNode) = S_IFREG + 2048 + 428
    /\ replies[1].body.attr.mode = S_IFREG + 2048 + 436
    /\ replies[1].body.attr.ino = replies[1].body.nodeid
    /\ replies[1].body.attr.ino # 0


\* The names from the root's child down to node, each after a '/', read off
\* the child lists from the root downwards; node is below the root.
RECURSIVE NamesDown(_, _)
NamesDown(m, node) ==
    IF node = RootPtr THEN <<>>
    ELSE LET up == CHOOSE q \in Reachable(m) :
                       node \in SeqToSet(Children(m, q))
         IN NamesDown(m, up) \o <<"/">> \o m[node].name

\* '/' and the name, or nothing when no name is given.
Trailing(name) == IF name = NoName THEN <<>> ELSE <<"/">> \o name

C21_FoldedNames ==
    force_lower_case =>
        /\ \A p \in Heap :
               mem[p].live => mem[p].name = normalize_name(TRUE, mem[p].name)
        /\ \A p \in Heap, q \in Heap :
               (/\ mem[p].live /\ mem[q].live /\ p # q
                /\ mem[p].parent = mem[q].parent)
               => normalize_name(TRUE, mem[p].name)
                      # normalize_name(TRUE, mem[q].name)
        /\ (/\ req.opcode = "LOOKUP" /\ Len(replies) = 1
            /\ replies[1].body.kind = "entry")
           => mem[lookup_by_inode(replies[1].body.nodeid)].name
                  = normalize_name(TRUE, req.arg.name)


\* C22: a GETATTR of a node whose host entry lstat does not find is answered
\* with one reply that is a header alone with a nonzero error, never with a
\* success carrying attributes.
C22_GetattrFails ==
    (/\ req.opcode = "GETATTR"
     /\ WellFramed(req)
     /\ pc = "run"
     /\ HostMode(mem, host, force_lower_case, lookup_by_inode(req.nodeid)) = 0)
    => /\ Len(replies) = 1
       /\ replies[1].error # 0
       /\ replies[1].body.kind = "none"


\* C23: while the process runs, the refcount of every node of the table but
\* the root is the number of entry replies the kernel received for it, less
\* the lookups it has forgotten, plus the number of the node's children; the
\* root's refcount is 2 plus the number of its children.
C23_RefcountSum ==
    pc = "run" =>
        /\ \A p \in Heap :
               mem[p].live =>
                   mem[p].refcount
                       = klookup[mem[p].nid] + Len(Children(mem, p))
        /\ mem[RootPtr].refcount
               = ROOT_REFCOUNT + Len(Children(mem, RootPtr))


\* C24: while the process runs, following the parent pointers from any node
\* of the table reaches the root: the walk meets no node twice, no freed
\* node and no null pointer on its way.
C24_NoParentCycle ==
    LET RECURSIVE ReachesRoot(_, _)
        ReachesRoot(node, seen) ==
            IF node = RootPtr THEN TRUE
            ELSE IF node \in seen \/ ~IsLive(mem, node) THEN FALSE
            ELSE ReachesRoot(mem[node].parent, seen \cup {node})
    IN pc = "run" =>
           \A p \in Heap : mem[p].live => ReachesRoot(p, {})


\* C25: under a kernel that follows the protocol, no handler reads or writes
\* a freed node, and none dies following a null parent pointer.
C25_NoFault == ~uaf /\ pc # "crashed"

====
